---- MODULE Spec2Model ----
(***************************************************************************)
(* A model of aperture: the rule-matching worker pool of worker.go, the    *)
(* startup wiring of main.go, and the subscriber hub the workers feed.     *)
(*                                                                         *)
(* Strings that the code only compares are kept as strings.  A URI is kept *)
(* as the sequence strings.Split(uri, "/") yields, so that the prefix test *)
(* and the segment count of the target extraction are computed, not        *)
(* assumed.  A text or a URL is a sequence of letters and a pattern is a   *)
(* literal, so MatchString is a search for the literal, as a regular       *)
(* expression without metacharacters is.                                   *)
(***************************************************************************)
EXTENDS Integers, Sequences, FiniteSets, TLC

\* A nil pointer.  Every pointer-valued field holds Nil or a record.
Nil == [nil |-> TRUE]

\* ----------------------------------------------------------------- bounds
NumWorkers == 2
MaxEvents == 2
BroadcastCap == 1
MaxMsgs == 3
SinkCap == 1
MaxIncr == 4

\* -------------------------------------------------------- program constants
JobQueueCap == 1000

\* ------------------------------------------------------------ data domain
Range(s) == {s[i] : i \in 1..Len(s)}

DidA == "did:plc:abc123"
DidB == "did:plc:zzz"

UriOk == <<"at:", "", DidA, "app.bsky.feed.post", "xyz">>
UriOther == <<"at:", "", DidB, "app.bsky.feed.post", "q">>
UriHttp == <<"https:", "", "example.com", "x">>
UriShort == <<"did:plc:abc123", "app.bsky.feed.post">>

EventTypePost == "post"
EventTypeLike == "like"
EventTypeRepost == "repost"
EventTypeDelete == "delete"
EventTypeIdentity == "identity"
EventTypeAccount == "account"

NoEmbed == Nil
EmbedExternal(url) == [Images |-> 0, Video |-> Nil, External |-> [URL |-> url], Record |-> Nil]
EmbedImages == [Images |-> 2, Video |-> Nil, External |-> Nil, Record |-> Nil]
EmbedVideo == [Images |-> 0, Video |-> [ref |-> "v"], External |-> Nil, Record |-> Nil]
EmbedRecord == [Images |-> 0, Video |-> Nil, External |-> Nil, Record |-> [ref |-> "r"]]

MkPost(text, embed, langs, reply) ==
    [Text |-> text, Embed |-> embed, Languages |-> langs, ReplyInfo |-> reply]

MkEvent(type, repo, raw, post, like, repost, del) ==
    [Type |-> type, Repo |-> repo, RawCommit |-> raw, Post |-> post,
     LikeEvent |-> like, RepostEvent |-> repost, DeleteEvent |-> del,
     User |-> Nil]

\* The event with the handle of its user filled in.
WithUser(event, handle) == [event EXCEPT !.User = [Handle |-> handle]]

Subject(uri) == [Subject |-> [URI |-> uri]]
Reply(uri) == [ReplyTarget |-> [URI |-> uri]]
\* A raw commit: its record, the DID it names and its commit part; the DID
\* may be empty and the commit part absent.
RawOk == [Record |-> "valid", Did |-> "", Commit |-> Nil]
RawBad == [Record |-> "invalid", Did |-> "", Commit |-> Nil]

\* The event with the DID and the commit's collection of its raw commit
\* filled in.
WithCommit(event, did, collection) ==
    [event EXCEPT !.RawCommit = [Record |-> "valid", Did |-> did,
                                 Commit |-> [Collection |-> collection]]]

\* ------------------------------------------------- classification (worker)
HasPrefixAt(uri) == Len(uri) >= 3 /\ uri[1] = "at:" /\ uri[2] = ""

extractDIDNoPrefix(uri) == IF Len(uri) >= 3 THEN uri[3] ELSE ""

extractDID(uri) ==
    IF HasPrefixAt(uri)
    THEN IF Len(uri) >= 3 THEN uri[3] ELSE ""
    ELSE ""

getDID(uri) == extractDID(uri)

authorDIDOfRaw(event) ==
    IF event.RawCommit # Nil /\ event.RawCommit.Did # ""
    THEN event.RawCommit.Did
    ELSE event.Repo

authorDIDOf(event) == event.Repo

collectionOf(event) ==
    CASE event.Type = EventTypePost -> "app.bsky.feed.post"
      [] event.Type = EventTypeLike -> "app.bsky.feed.like"
      [] event.Type = EventTypeRepost -> "app.bsky.feed.repost"
      [] event.Type = EventTypeDelete ->
            IF event.DeleteEvent # Nil THEN event.DeleteEvent.Collection ELSE ""
      [] event.Type = EventTypeIdentity -> "identity"
      [] event.Type = EventTypeAccount -> "account"
      [] OTHER -> ""

targetUserDIDOf(event) ==
    IF event.LikeEvent # Nil /\ event.LikeEvent.Subject # Nil
    THEN getDID(event.LikeEvent.Subject.URI)
    ELSE IF event.RepostEvent # Nil /\ event.RepostEvent.Subject # Nil
    THEN getDID(event.RepostEvent.Subject.URI)
    ELSE IF event.Post # Nil /\ event.Post.ReplyInfo # Nil
    THEN getDID(event.Post.ReplyInfo.ReplyTarget.URI)
    ELSE ""

\* What the loop body works out of the event before it looks at the rules.
Classify(event) ==
    [collection |-> collectionOf(event),
     authorDID |-> authorDIDOf(event),
     targetUserDID |-> targetUserDIDOf(event)]

\* --------------------------------------------------- rule evaluation (worker)
\* regexp.MatchString for a literal pattern: the literal occurs in the text.
MatchString(pattern, text) ==
    \E i \in 1..(Len(text) + 1) :
        /\ i + Len(pattern) - 1 <= Len(text)
        /\ SubSeq(text, i, i + Len(pattern) - 1) = pattern

\* Each check is TRUE when the loop body goes on to the next check, FALSE
\* when it takes "continue".
CheckCollectionSkipped(rule, collection) == TRUE

CheckCollectionNoWildcard(rule, collection) ==
    IF Len(rule.Collections) > 0
    THEN \E i \in 1..Len(rule.Collections) : rule.Collections[i] = collection
    ELSE TRUE

CheckCollectionEmptyNone(rule, collection) ==
    /\ Len(rule.Collections) > 0
    /\ \/ \E i \in 1..Len(rule.Collections) : rule.Collections[i] = "*"
       \/ \E i \in 1..Len(rule.Collections) : rule.Collections[i] = collection

CheckCollection(rule, collection) ==
    IF Len(rule.Collections) > 0
    THEN LET wildcard == \E i \in 1..Len(rule.Collections) : rule.Collections[i] = "*"
         IN IF ~wildcard
            THEN \E i \in 1..Len(rule.Collections) : rule.Collections[i] = collection
            ELSE TRUE
    ELSE TRUE

CheckAuthorAnyone(rule, authorDID) == TRUE

CheckAuthor(rule, authorDID) ==
    IF Cardinality(rule.Authors) > 0 THEN authorDID \in rule.Authors ELSE TRUE

CheckTargetUserEmptyMember(rule, targetUserDID) ==
    IF Cardinality(rule.TargetUsers) > 0
    THEN targetUserDID \in rule.TargetUsers
    ELSE TRUE

CheckTargetUser(rule, targetUserDID) ==
    IF Cardinality(rule.TargetUsers) > 0
    THEN ~(targetUserDID = "" \/ targetUserDID \notin rule.TargetUsers)
    ELSE TRUE

CheckTextPatterns(rule, event) ==
    IF Len(rule.TextPatterns) > 0
    THEN IF event.Post = Nil
         THEN FALSE
         ELSE \E i \in 1..Len(rule.TextPatterns) :
                  MatchString(rule.TextPatterns[i], event.Post.Text)
    ELSE TRUE

CheckUrlPatternsOrText(rule, event) ==
    IF Len(rule.UrlPatterns) > 0
    THEN IF event.Post = Nil
         THEN FALSE
         ELSE IF event.Post.Embed # Nil /\ event.Post.Embed.External # Nil
              THEN \E i \in 1..Len(rule.UrlPatterns) :
                       MatchString(rule.UrlPatterns[i], event.Post.Embed.External.URL)
              ELSE \E i \in 1..Len(rule.UrlPatterns) :
                       MatchString(rule.UrlPatterns[i], event.Post.Text)
    ELSE TRUE

CheckUrlPatterns(rule, event) ==
    IF Len(rule.UrlPatterns) > 0
    THEN IF event.Post = Nil
         THEN FALSE
         ELSE IF event.Post.Embed # Nil /\ event.Post.Embed.External # Nil
              THEN \E i \in 1..Len(rule.UrlPatterns) :
                       MatchString(rule.UrlPatterns[i], event.Post.Embed.External.URL)
              ELSE FALSE
    ELSE TRUE

EmbedTypeHitAny(t, embed) == TRUE

EmbedTypeHit(t, embed) ==
    \/ t = "images" /\ embed.Images > 0
    \/ t = "video" /\ embed.Video # Nil
    \/ t = "external" /\ embed.External # Nil
    \/ t = "record" /\ embed.Record # Nil

CheckEmbedTypes(rule, event) ==
    IF Len(rule.EmbedTypes) > 0
    THEN IF event.Post = Nil
         THEN FALSE
         ELSE IF event.Post.Embed # Nil
              THEN \E i \in 1..Len(rule.EmbedTypes) :
                       EmbedTypeHit(rule.EmbedTypes[i], event.Post.Embed)
              ELSE FALSE
    ELSE TRUE

CheckLangsLenient(rule, event) ==
    IF Len(rule.Langs) > 0
    THEN IF event.Post = Nil
         THEN TRUE
         ELSE \E i \in 1..Len(event.Post.Languages) :
                  \E j \in 1..Len(rule.Langs) :
                      event.Post.Languages[i] = rule.Langs[j]
    ELSE TRUE

CheckLangs(rule, event) ==
    IF Len(rule.Langs) > 0
    THEN IF event.Post = Nil
         THEN FALSE
         ELSE \E i \in 1..Len(event.Post.Languages) :
                  \E j \in 1..Len(rule.Langs) :
                      event.Post.Languages[i] = rule.Langs[j]
    ELSE TRUE

CheckIsReplyOnlyTrue(rule, event) ==
    IF rule.IsReply # Nil /\ rule.IsReply.v
    THEN IF event.Post = Nil
         THEN FALSE
         ELSE event.Post.ReplyInfo # Nil
    ELSE TRUE

CheckIsReplyBuggy(rule, event) ==
    IF rule.IsReply # Nil
    THEN IF event.Post = Nil
         THEN TRUE
         ELSE rule.IsReply.v = (event.Post.ReplyInfo # Nil)
    ELSE TRUE

CheckIsReply(rule, event) ==
    IF rule.IsReply # Nil
    THEN IF event.Post = Nil
         THEN FALSE
         ELSE rule.IsReply.v = (event.Post.ReplyInfo # Nil)
    ELSE TRUE

\* One pass of the body of "for _, rule := range rules": TRUE when the body
\* reaches "Rule matched", FALSE when a check takes "continue".
RuleMatches(event, rule) ==
    LET collection == collectionOf(event)
        authorDID == authorDIDOf(event)
        targetUserDID == targetUserDIDOf(event)
    IN IF ~CheckCollection(rule, collection) THEN FALSE
       ELSE IF ~CheckAuthor(rule, authorDID) THEN FALSE
       ELSE IF ~CheckTargetUser(rule, targetUserDID) THEN FALSE
       ELSE IF ~CheckTextPatterns(rule, event) THEN FALSE
       ELSE IF ~CheckUrlPatterns(rule, event) THEN FALSE
       ELSE IF ~CheckEmbedTypes(rule, event) THEN FALSE
       ELSE IF ~CheckLangs(rule, event) THEN FALSE
       ELSE IF ~CheckIsReply(rule, event) THEN FALSE
       ELSE TRUE

\* -------------------------------------------------------------- variables
VARIABLES
    \* rule evaluation on its own
    evEvent, evRule, evDone, evResult, evClass,
    \* the dispatcher: StartDispatcher and its workers
    rules, jobs, closed, produced, pc, cur, ridx, matchedRules, data,
    broadcast, counts, wg, returned, errLog,
    \* what each event instance went through (for the properties only)
    deq, outcome, pushes, pendingAtClose,
    \* the hub: its control loop, its channels and the sinks
    clients, regQ, unregQ, sinkState, closeCount, outbox, submitted,
    \* what each sink went through (for the properties only)
    got, regAt, unregSent, evicted,
    \* main: the declared rules, the compile loop and what has been started
    config, mpc, ci, compiledRules, ruleNames, collectionsMap, collections,
    started, fatal, listing,
    \* RuleStats: the counter a worker holds between LoadOrStore and AddInt64,
    \* the calls of Increment made (for the properties only), the last snapshot
    val, calls, snap

evalVars == <<evEvent, evRule, evDone, evResult, evClass>>
dispVars == <<rules, jobs, closed, produced, pc, cur, ridx, matchedRules, data,
              broadcast, counts, wg, returned, errLog, deq, outcome, pushes,
              pendingAtClose>>
hubVars == <<clients, regQ, unregQ, sinkState, closeCount, outbox, submitted,
             got, regAt, unregSent, evicted>>
mainVars == <<config, mpc, ci, compiledRules, ruleNames, collectionsMap,
              collections, started, fatal, listing>>
statsVars == <<val, calls, snap>>
vars == <<evalVars, dispVars, hubVars, mainVars, statsVars>>
\* The dispatcher's variables but the broadcast channel, which the hub reads.
dispOnly == <<rules, jobs, closed, produced, pc, cur, ridx, matchedRules, data,
              counts, wg, returned, errLog, deq, outcome, pushes, pendingAtClose>>


Workers == 1..NumWorkers
Sinks == {"A", "B", "C"}
\* The sinks whose peer never reads: their outbound buffer is never drained.
Blocked == {"B"}
\* The tasks that may each send one Unregister message.
Tasks == {"t1", "t2"}
EventIds == 1..MaxEvents

\* ------------------------------------------------ inputs of the evaluation
MkRule(name, colls, text, url, authors, targets, embeds, langs, isReply) ==
    [Name |-> name, Collections |-> colls, TextPatterns |-> text,
     UrlPatterns |-> url, Authors |-> authors, TargetUsers |-> targets,
     EmbedTypes |-> embeds, Langs |-> langs, IsReply |-> isReply]

BoolPtr(b) == [v |-> b]

EvalPosts ==
    {MkPost(t, e, l, r) :
        t \in {<<"a", "b">>, <<"c">>},
        e \in {Nil, EmbedExternal(<<"u", "v">>), EmbedImages},
        l \in {<<>>, <<"ja", "en">>},
        r \in {Nil, Reply(UriOk), Reply(UriHttp)}}

EvalEvents ==
    {MkEvent(EventTypePost, a, RawOk, p, Nil, Nil, Nil) :
        a \in {DidA, DidB}, p \in EvalPosts}
    \cup {MkEvent(EventTypeLike, a, RawOk, Nil, s, Nil, Nil) :
        a \in {DidA, DidB},
        s \in {[Subject |-> Nil], Subject(UriOk), Subject(UriOther), Subject(UriHttp),
               Subject(UriShort)}}
    \cup {MkEvent(EventTypeRepost, DidB, RawOk, Nil, Nil, s, Nil) :
        s \in {Subject(UriOk), Subject(UriHttp)}}
    \cup {MkEvent(EventTypeDelete, DidA, RawOk, Nil, Nil, Nil, d) :
        d \in {Nil, [Collection |-> "app.bsky.feed.post"],
               [Collection |-> "app.bsky.feed.like"]}}
    \cup {MkEvent(t, DidA, RawOk, Nil, Nil, Nil, Nil) :
        t \in {EventTypeIdentity, EventTypeAccount, "follow"}}
    \cup {WithCommit(MkEvent(EventTypePost, DidA, RawOk,
                             MkPost(<<"a", "b">>, Nil, <<>>, Nil), Nil, Nil, Nil),
                     DidB, "app.bsky.feed.post"),
          WithCommit(MkEvent("follow", DidA, RawOk, Nil, Nil, Nil, Nil),
                     DidA, "app.bsky.graph.follow")}
    \cup {MkEvent(EventTypePost, DidA, RawOk, MkPost(t, e, <<>>, Nil), Nil, Nil, Nil) :
        t \in {<<"u", "v">>},
        e \in {Nil, EmbedVideo, EmbedRecord, EmbedExternal(<<"w">>)}}

EvalRules ==
    {MkRule("r", c, t, u, a, g, e, l, i) :
        c \in {<<>>, <<"app.bsky.feed.post">>, <<"app.bsky.feed.like", "*">>, <<"*">>,
               <<"app.bsky.feed.like", "identity">>},
        t \in {<<>>, << <<"z">>, <<"b">> >>},
        u \in {<<>>, << <<"x">>, <<"v">> >>},
        a \in {{}, {DidA}},
        g \in {{}, {DidA, ""}},
        e \in {<<>>, <<"video", "external">>, <<"images">>},
        l \in {<<>>, <<"en">>},
        i \in {Nil, BoolPtr(TRUE), BoolPtr(FALSE)}}

\* ------------------------------------------------ inputs of the dispatcher
PostAB == MkPost(<<"a", "b">>, Nil, <<"en">>, Nil)

PipeEvents ==
    {WithUser(MkEvent(EventTypePost, DidA, RawOk, PostAB, Nil, Nil, Nil),
              "alice.bsky.social"),
     MkEvent(EventTypePost, DidA, RawBad, PostAB, Nil, Nil, Nil),
     MkEvent(EventTypeLike, DidB, Nil, Nil, Subject(UriOk), Nil, Nil)}

Plain(name, colls) == MkRule(name, colls, <<>>, <<>>, {}, {}, <<>>, <<>>, Nil)

RuleLists ==
    {<< MkRule("first", <<"app.bsky.feed.post">>, << <<"a">> >>, <<>>, {}, {}, <<>>, <<>>, Nil),
        Plain("second", <<"app.bsky.feed.like">>),
        MkRule("third", <<"*">>, <<>>, <<>>, {DidA}, {}, <<>>, <<>>, Nil) >>,
     << Plain("likes", <<"app.bsky.feed.like">>),
        MkRule("replies", <<>>, <<>>, <<>>, {}, {}, <<>>, <<>>, BoolPtr(TRUE)) >>}

NoJob == [id |-> 0, event |-> Nil]
NoData == Nil

\* ------------------------------------------------------------ initial states
InitEvalIdle ==
    /\ evEvent = Nil
    /\ evRule = Nil
    /\ evDone = FALSE
    /\ evResult = FALSE
    /\ evClass = Nil

InitDispIdle ==
    /\ rules = <<>>
    /\ jobs = <<>>
    /\ closed = FALSE
    /\ produced = 0
    /\ pc = [w \in Workers |-> "recv"]
    /\ cur = [w \in Workers |-> NoJob]
    /\ ridx = [w \in Workers |-> 0]
    /\ matchedRules = [w \in Workers |-> <<>>]
    /\ data = [w \in Workers |-> NoData]
    /\ broadcast = <<>>
    /\ counts = <<>>
    /\ wg = 0
    /\ returned = FALSE
    /\ errLog = {}
    /\ deq = [i \in EventIds |-> 0]
    /\ outcome = [i \in EventIds |-> <<>>]
    /\ pushes = [i \in EventIds |-> <<>>]
    /\ pendingAtClose = {}

InitHubIdle ==
    /\ clients = {}
    /\ regQ = {}
    /\ unregQ = [s \in Sinks |-> 0]
    /\ sinkState = [s \in Sinks |-> "new"]
    /\ closeCount = [s \in Sinks |-> 0]
    /\ outbox = [s \in Sinks |-> <<>>]
    /\ submitted = 0
    /\ got = [s \in Sinks |-> <<>>]
    /\ regAt = [s \in Sinks |-> [submitted |-> 0, handled |-> 0]]
    /\ unregSent = {}
    /\ evicted = {}

InitMainIdle ==
    /\ config = <<>>
    /\ mpc = "idle"
    /\ ci = 0
    /\ compiledRules = <<>>
    /\ ruleNames = <<>>
    /\ collectionsMap = {}
    /\ collections = {}
    /\ started = {}
    /\ fatal = Nil
    /\ listing = Nil

\* ---------------------------------------------- the evaluation on its own
\* The rule names Increment is called with.
StatNames == {"first", "second"}

\* No call of Increment is under way.
NoVal == ""

InitStatsIdle ==
    /\ val = [w \in Workers |-> NoVal]
    /\ calls = [n \in StatNames |-> 0]
    /\ snap = <<>>

InitEval ==
    /\ evEvent \in EvalEvents
    /\ evRule \in EvalRules
    /\ evDone = FALSE
    /\ evResult = FALSE
    /\ evClass = Nil
    /\ InitDispIdle
    /\ InitHubIdle
    /\ InitMainIdle
    /\ InitStatsIdle

Evaluate ==
    /\ ~evDone
    /\ evDone' = TRUE
    /\ evClass' = Classify(evEvent)
    /\ evResult' = RuleMatches(evEvent, evRule)
    /\ UNCHANGED <<evEvent, evRule, dispVars, hubVars, mainVars, statsVars>>

NextEval == Evaluate

SpecEval == InitEval /\ [][NextEval]_vars

\* ------------------------------------------------------------ the dispatcher
\* json.Marshal of the payload: a json.RawMessage that is not valid JSON makes
\* the encoder return an error; a nil pointer encodes as null.
MarshalFails(msg) == msg.Event # Nil /\ msg.Event.Record = "invalid"

MarshalWithHandle(msg) ==
    [event |-> msg.Event, matchedRules |-> msg.MatchedRules, authorHandle |-> ""]

Marshal(msg) == [event |-> msg.Event, matchedRules |-> msg.MatchedRules]

\* "var payload interface{} = event.RawCommit": an interface that holds a
\* typed nil pointer is itself not nil, so the comparison with nil is false
\* whatever event.RawCommit is.
InterfaceIsNil(ptr) == FALSE

payloadOf(event) == IF InterfaceIsNil(event.RawCommit) THEN event ELSE event.RawCommit

BroadcastMessage(event, matched) == [Event |-> payloadOf(event), MatchedRules |-> matched]

\* sync.Map.LoadOrStore(ruleName, new(int64)) followed by atomic.AddInt64.
\* Store in the place of LoadOrStore: the counter under the key is replaced.
LoadOrStoreFresh(m, key) == (key :> 0) @@ m

LoadOrStore(m, key) == IF key \in DOMAIN m THEN m ELSE m @@ (key :> 0)

Increment(m, ruleName) ==
    LET stored == LoadOrStore(m, ruleName)
    IN [stored EXCEPT ![ruleName] = @ + 1]

GetCounts(m) == m

InitDisp ==
    /\ rules \in RuleLists
    /\ jobs = <<>>
    /\ closed = FALSE
    /\ produced = 0
    /\ pc = [w \in Workers |-> "recv"]
    /\ cur = [w \in Workers |-> NoJob]
    /\ ridx = [w \in Workers |-> 0]
    /\ matchedRules = [w \in Workers |-> <<>>]
    /\ data = [w \in Workers |-> NoData]
    /\ broadcast = <<>>
    /\ counts = <<>>
    /\ wg = NumWorkers
    /\ returned = FALSE
    /\ errLog = {}
    /\ deq = [i \in EventIds |-> 0]
    /\ outcome = [i \in EventIds |-> <<>>]
    /\ pushes = [i \in EventIds |-> <<>>]
    /\ pendingAtClose = {}

Init == InitEvalIdle /\ InitDisp /\ InitHubIdle /\ InitMainIdle /\ InitStatsIdle

\* The ingestion goroutine: "jobQueue <- event".
Produce(e) ==
    /\ ~closed
    /\ produced < MaxEvents
    /\ Len(jobs) < JobQueueCap
    /\ produced' = produced + 1
    /\ jobs' = Append(jobs, [id |-> produced + 1, event |-> e])
    /\ UNCHANGED <<rules, closed, pc, cur, ridx, matchedRules, data, broadcast,
                   counts, wg, returned, errLog, deq, outcome, pushes, pendingAtClose, evalVars, hubVars, mainVars, statsVars>>

\* The owner of the inbound queue closes it.
CloseJobs ==
    /\ ~closed
    /\ closed' = TRUE
    /\ pendingAtClose' = {jobs[i].id : i \in 1..Len(jobs)}
    /\ UNCHANGED <<rules, jobs, produced, pc, cur, ridx, matchedRules, data,
                   broadcast, counts, wg, returned, errLog, deq, outcome, pushes,
                   evalVars, hubVars, mainVars, statsVars>>

AfterRule(i) == IF i + 1 > Len(rules) THEN "build" ELSE "eval"

\* "for event := range jobs" ends once the queue is closed and drained.
RangeEndsOnClose == closed

RangeEnds == jobs = <<>> /\ closed

\* The queue after a receive: the event received is no longer on it.
AfterReceiveKept(q) == q

AfterReceive(q) == Tail(q)

\* "var matchedRules []string", declared in the body of the loop over the
\* events: every event starts with the nil slice.
DeclMatchedRulesStale(w) == matchedRules[w]

DeclMatchedRules(w) == <<>>

\* "for event := range jobs": one event is received.
WorkerRecv(w) ==
    /\ pc[w] = "recv"
    /\ ~RangeEnds
    /\ jobs # <<>>
    /\ cur' = [cur EXCEPT ![w] = Head(jobs)]
    /\ jobs' = AfterReceive(jobs)
    /\ deq' = [deq EXCEPT ![Head(jobs).id] = @ + 1]
    /\ matchedRules' = [matchedRules EXCEPT ![w] = DeclMatchedRules(w)]
    /\ ridx' = [ridx EXCEPT ![w] = 1]
    /\ pc' = [pc EXCEPT ![w] = AfterRule(0)]
    /\ UNCHANGED <<rules, closed, produced, data, broadcast, counts, wg,
                   returned, errLog, outcome, pushes, pendingAtClose, evalVars, hubVars, mainVars, statsVars>>

\* "for event := range jobs" on a closed and drained queue: the loop ends,
\* worker returns and the deferred wg.Done() runs.
WorkerExit(w) ==
    /\ pc[w] = "recv"
    /\ RangeEnds
    /\ pc' = [pc EXCEPT ![w] = "exit"]
    /\ wg' = wg - 1
    /\ UNCHANGED <<rules, jobs, closed, produced, cur, ridx, matchedRules, data,
                   broadcast, counts, returned, errLog, deq, outcome, pushes,
                   pendingAtClose, evalVars, hubVars, mainVars, statsVars>>

\* One pass of the body of "for _, rule := range rules": the checks, which
\* read only the worker's own event and the rule, and on "Rule matched" the
\* append of the name and GlobalRuleStats.Increment(rule.Name), the one
\* access to shared state.
WorkerEvalRule(w) ==
    /\ pc[w] = "eval"
    /\ LET rule == rules[ridx[w]]
       IN IF RuleMatches(cur[w].event, rule)
          THEN /\ matchedRules' = [matchedRules EXCEPT ![w] = Append(@, rule.Name)]
               /\ counts' = Increment(counts, rule.Name)
          ELSE /\ matchedRules' = matchedRules
               /\ counts' = counts
    /\ pc' = [pc EXCEPT ![w] = AfterRule(ridx[w])]
    /\ ridx' = [ridx EXCEPT ![w] = @ + 1]
    /\ UNCHANGED <<rules, jobs, closed, produced, cur, data, broadcast,
                   wg, returned, errLog, deq, outcome, pushes, pendingAtClose, evalVars, hubVars, mainVars, statsVars>>

\* "if len(matchedRules) > 0": the envelope is built and serialized; on an
\* error the worker logs and takes "continue".
ShouldBroadcastAlways(matched) == TRUE

ShouldBroadcast(matched) == Len(matched) > 0

\* Where the worker is after "if err != nil { log.Printf(...); continue }".
MarshalErrorFallsThrough == "send"

MarshalErrorNext == "recv"

\* The variables declared in the loop body are gone when the body ends.
EndOfBody(w, next) ==
    IF next = "recv"
    THEN /\ cur' = [cur EXCEPT ![w] = NoJob]
         /\ ridx' = [ridx EXCEPT ![w] = 0]
         /\ matchedRules' = [matchedRules EXCEPT ![w] = DeclMatchedRules(w)]
    ELSE UNCHANGED <<cur, ridx, matchedRules>>

WorkerBuild(w) ==
    /\ pc[w] = "build"
    /\ outcome' = [outcome EXCEPT ![cur[w].id] =
                      Append(@, [event |-> cur[w].event, matched |-> matchedRules[w]])]
    /\ LET msg == BroadcastMessage(cur[w].event, matchedRules[w])
       IN IF ShouldBroadcast(matchedRules[w])
          THEN IF MarshalFails(msg)
               THEN /\ errLog' = errLog \cup {[id |-> cur[w].id, by |-> w]}
                    /\ data' = data
                    /\ pc' = [pc EXCEPT ![w] = MarshalErrorNext]
                    /\ EndOfBody(w, MarshalErrorNext)
               ELSE /\ errLog' = errLog
                    /\ data' = [data EXCEPT ![w] = Marshal(msg)]
                    /\ pc' = [pc EXCEPT ![w] = "send"]
                    /\ EndOfBody(w, "send")
          ELSE /\ errLog' = errLog
               /\ data' = data
               /\ pc' = [pc EXCEPT ![w] = "recv"]
               /\ EndOfBody(w, "recv")
    /\ UNCHANGED <<rules, jobs, closed, produced,
                   broadcast, counts, wg, returned, deq, pushes, pendingAtClose, evalVars, hubVars, mainVars, statsVars>>

\* "broadcast <- data": waits while the channel is full.
WorkerSendOrDrop(w) ==
    /\ pc[w] = "send"
    /\ IF Len(broadcast) < BroadcastCap
       THEN /\ broadcast' = Append(broadcast, [id |-> cur[w].id, bytes |-> data[w]])
            /\ pushes' = [pushes EXCEPT ![cur[w].id] = Append(@, data[w])]
       ELSE UNCHANGED <<broadcast, pushes>>
    /\ data' = [data EXCEPT ![w] = NoData]
    /\ pc' = [pc EXCEPT ![w] = "recv"]
    /\ EndOfBody(w, "recv")
    /\ UNCHANGED <<rules, jobs, closed, produced,
                   counts, wg, returned, errLog, deq, outcome, pendingAtClose, evalVars, hubVars, mainVars, statsVars>>

WorkerSend(w) ==
    /\ pc[w] = "send"
    /\ Len(broadcast) < BroadcastCap
    /\ broadcast' = Append(broadcast, [id |-> cur[w].id, bytes |-> data[w]])
    /\ pushes' = [pushes EXCEPT ![cur[w].id] = Append(@, data[w])]
    /\ data' = [data EXCEPT ![w] = NoData]
    /\ pc' = [pc EXCEPT ![w] = "recv"]
    /\ EndOfBody(w, "recv")
    /\ UNCHANGED <<rules, jobs, closed, produced,
                   counts, wg, returned, errLog, deq, outcome, pendingAtClose, evalVars, hubVars, mainVars, statsVars>>

\* StartDispatcher: wg.Wait() returns once every worker has called wg.Done().
StartDispatcherReturn ==
    /\ ~returned
    /\ wg = 0
    /\ returned' = TRUE
    /\ UNCHANGED <<rules, jobs, closed, produced, pc, cur, ridx, matchedRules,
                   data, broadcast, counts, wg, errLog, deq, outcome, pushes,
                   pendingAtClose, evalVars, hubVars, mainVars, statsVars>>

\* The next step of worker w, whichever statement it is at.
WorkerStep(w) ==
    \/ WorkerRecv(w)
    \/ WorkerExit(w)
    \/ WorkerEvalRule(w)
    \/ WorkerBuild(w)
    \/ WorkerSend(w)

\* ------------------------------------------------------------- RuleStats
\* atomic.AddInt64(val.(*int64), 1) on the counter stored under key.
AddInt64(m, key) == [m EXCEPT ![key] = @ + 1]

\* The dispatcher's variables but the counters.
dispButCounts == <<rules, jobs, closed, produced, pc, cur, ridx, matchedRules,
                   data, broadcast, wg, returned, errLog, deq, outcome, pushes,
                   pendingAtClose>>

Sum(f) == f["first"] + f["second"]

\* Increment, first statement: worker w calls rs.counts.LoadOrStore(ruleName,
\* new(int64)) and holds the counter it returns.
StatsLoadOrStore(w, n) ==
    /\ val[w] = NoVal
    /\ Sum(calls) < MaxIncr
    /\ counts' = LoadOrStore(counts, n)
    /\ val' = [val EXCEPT ![w] = n]
    /\ calls' = [calls EXCEPT ![n] = @ + 1]
    /\ UNCHANGED <<snap, dispButCounts, evalVars, hubVars, mainVars>>

\* Increment, second statement: atomic.AddInt64 on the counter held.
StatsAdd(w) ==
    /\ val[w] # NoVal
    /\ counts' = AddInt64(counts, val[w])
    /\ val' = [val EXCEPT ![w] = NoVal]
    /\ UNCHANGED <<calls, snap, dispButCounts, evalVars, hubVars, mainVars>>

\* GetCounts: every counter of the map is read with atomic.LoadInt64.
StatsGetCounts ==
    /\ snap' = GetCounts(counts)
    /\ UNCHANGED <<val, calls, counts, dispButCounts, evalVars, hubVars, mainVars>>

InitStats == InitEvalIdle /\ InitDispIdle /\ InitHubIdle /\ InitMainIdle /\ InitStatsIdle

NextStats ==
    \/ \E w \in Workers, n \in StatNames : StatsLoadOrStore(w, n)
    \/ \E w \in Workers : StatsAdd(w)
    \/ StatsGetCounts

SpecStats == InitStats /\ [][NextStats]_vars

\* ------------------------------------------------------------------ the hub
\* The last broadcast the control loop has taken off the channel: messages
\* are numbered as they are submitted and the channel is first in, first out.
handled == submitted - Len(broadcast)

\* The non-blocking send to a sink finds the sink's outbound buffer full.
SlowNever(s) == FALSE

Slow(s) == Len(outbox[s]) >= SinkCap

\* Whether an Unregister message has a sink to remove and a transport to close.
KnownAlways(s) == TRUE

Known(s) == s \in clients

\* What a newly registered sink is handed of the broadcasts before it.
BacklogReplay(s) == IF handled > 0 THEN <<handled>> ELSE <<>>

Backlog(s) == <<>>

\* The set of sinks after a registration.
JoinedAlone(set, s) == {s}

Joined(set, s) == set \cup {s}

\* The set of sinks after an eviction during a broadcast.
KeepEvicted(set, gone) == set

Remove(set, gone) == set \ gone

\* serveWs: the connection is upgraded and handed to the hub,
\* "hub.register <- conn".
ServeWs(s) ==
    /\ sinkState[s] = "new"
    /\ sinkState' = [sinkState EXCEPT ![s] = "connecting"]
    /\ regQ' = regQ \cup {s}
    /\ UNCHANGED <<clients, unregQ, closeCount, outbox, submitted, got, regAt,
                   unregSent, evicted, broadcast,
                   dispOnly, evalVars, mainVars, statsVars>>

\* serveWs: the upgrade fails, the error is logged and the handler returns;
\* nothing reaches the hub.
ServeWsUpgradeFails(s) ==
    /\ sinkState[s] = "new"
    /\ UNCHANGED vars

\* The control loop takes a Register message: the sink joins the set.
HubRegister(s) ==
    /\ s \in regQ
    /\ regQ' = regQ \ {s}
    /\ clients' = Joined(clients, s)
    /\ sinkState' = [sinkState EXCEPT ![s] = "registered"]
    /\ outbox' = [outbox EXCEPT ![s] = Backlog(s)]
    /\ got' = [got EXCEPT ![s] = Backlog(s)]
    /\ regAt' = [regAt EXCEPT ![s] = [submitted |-> submitted, handled |-> handled]]
    /\ UNCHANGED <<unregQ, closeCount, submitted, unregSent, evicted,
                   broadcast,
                   dispOnly, evalVars, mainVars, statsVars>>

\* A task (the sink's reader, on a read error or the peer's disconnect) sends
\* an Unregister message for a sink the hub has registered.
RequestUnregister(t, s) ==
    /\ sinkState[s] \in {"registered", "closed"}
    /\ t \notin unregSent
    /\ unregSent' = unregSent \cup {t}
    /\ unregQ' = [unregQ EXCEPT ![s] = @ + 1]
    /\ UNCHANGED <<clients, regQ, sinkState, closeCount, outbox, submitted, got,
                   regAt, evicted, broadcast,
                   dispOnly, evalVars, mainVars, statsVars>>

\* The control loop takes an Unregister message: a sink of the set is removed
\* and its transport closed; for any other sink nothing happens.
HubUnregister(s) ==
    /\ unregQ[s] > 0
    /\ unregQ' = [unregQ EXCEPT ![s] = @ - 1]
    /\ IF Known(s)
       THEN /\ clients' = clients \ {s}
            /\ sinkState' = [sinkState EXCEPT ![s] = "closed"]
            /\ closeCount' = [closeCount EXCEPT ![s] = @ + 1]
       ELSE UNCHANGED <<clients, sinkState, closeCount>>
    /\ UNCHANGED <<regQ, outbox, submitted, got, regAt, unregSent, evicted,
                   broadcast,
                   dispOnly, evalVars, mainVars, statsVars>>

\* A producer pushes a message onto the broadcast channel.
Submit ==
    /\ submitted < MaxMsgs
    /\ Len(broadcast) < BroadcastCap
    /\ submitted' = submitted + 1
    /\ broadcast' = Append(broadcast, [id |-> submitted + 1, bytes |-> NoData])
    /\ UNCHANGED <<clients, regQ, unregQ, sinkState, closeCount, outbox, got,
                   regAt, unregSent, evicted,
                   dispOnly, evalVars, mainVars, statsVars>>

\* The control loop takes a Broadcast message: a non-blocking send to every
\* registered sink; a sink whose buffer is full is removed and closed.
HubBroadcastBlocking ==
    /\ broadcast # <<>>
    /\ \A s \in clients : ~Slow(s)
    /\ LET m == Head(broadcast).id
       IN /\ outbox' = [s \in Sinks |->
                           IF s \in clients THEN Append(outbox[s], m) ELSE outbox[s]]
          /\ got' = [s \in Sinks |->
                        IF s \in clients THEN Append(got[s], m) ELSE got[s]]
    /\ broadcast' = Tail(broadcast)
    /\ UNCHANGED <<clients, sinkState, closeCount, evicted, regQ, unregQ, submitted,
                   regAt, unregSent, dispOnly, evalVars, mainVars, statsVars>>

HubBroadcast ==
    /\ broadcast # <<>>
    /\ LET m == Head(broadcast).id
           slow == {s \in clients : Slow(s)}
       IN /\ outbox' = [s \in Sinks |->
                           IF s \in clients \ slow THEN Append(outbox[s], m) ELSE outbox[s]]
          /\ got' = [s \in Sinks |->
                        IF s \in clients \ slow THEN Append(got[s], m) ELSE got[s]]
          /\ clients' = Remove(clients, slow)
          /\ sinkState' = [s \in Sinks |-> IF s \in slow THEN "closed" ELSE sinkState[s]]
          /\ closeCount' = [s \in Sinks |-> IF s \in slow THEN closeCount[s] + 1 ELSE closeCount[s]]
          /\ evicted' = evicted \cup slow
    /\ broadcast' = Tail(broadcast)
    /\ UNCHANGED <<regQ, unregQ, submitted, regAt, unregSent,
                   dispOnly, evalVars, mainVars, statsVars>>

\* The writer of a sink whose peer reads takes one message off the buffer.
SinkDrain(s) ==
    /\ s \notin Blocked
    /\ sinkState[s] = "registered"
    /\ outbox[s] # <<>>
    /\ outbox' = [outbox EXCEPT ![s] = Tail(@)]
    /\ UNCHANGED <<clients, regQ, unregQ, sinkState, closeCount, submitted, got,
                   regAt, unregSent, evicted, broadcast,
                   dispOnly, evalVars, mainVars, statsVars>>

InitHub == InitEvalIdle /\ InitDispIdle /\ InitHubIdle /\ InitMainIdle /\ InitStatsIdle

NextHub ==
    \/ \E s \in Sinks : ServeWs(s)
    \/ \E s \in Sinks : ServeWsUpgradeFails(s)
    \/ \E s \in Sinks : HubRegister(s)
    \/ \E t \in Tasks, s \in Sinks : RequestUnregister(t, s)
    \/ \E s \in Sinks : HubUnregister(s)
    \/ Submit
    \/ HubBroadcast
    \/ \E s \in Sinks : SinkDrain(s)

SpecHub == InitHub /\ [][NextHub]_vars

\* The control loop is a goroutine of its own and is scheduled whenever a
\* message waits on the broadcast channel.
\* The writer of a sink whose peer reads is scheduled whenever a message
\* waits in the sink's buffer.
FairnessHub ==
    /\ WF_vars(HubBroadcast)
    /\ \A s \in Sinks \ Blocked : WF_vars(SinkDrain(s))

\* The hub while the peers of its sinks stay connected: sinks register, are
\* sent broadcasts, drain or do not, and are evicted, and none asks to be
\* unregistered.
NextHubConnected ==
    \/ \E s \in Sinks : ServeWs(s)
    \/ \E s \in Sinks : HubRegister(s)
    \/ Submit
    \/ HubBroadcast
    \/ \E s \in Sinks : SinkDrain(s)

LiveHub == InitHub /\ [][NextHubConnected]_vars /\ FairnessHub

\* ------------------------------------------------------------ main (startup)
\* A declared rule, as config.json holds it.
MkRuleSet(name, colls, text, url, authors, targets, embeds, langs, isReply) ==
    [Name |-> name, Collections |-> colls, TextRegexes |-> text,
     UrlRegexes |-> url, Authors |-> authors, TargetUsers |-> targets,
     EmbedTypes |-> embeds, Langs |-> langs, IsReply |-> isReply]

\* regexp.Compile on a pattern string, kept as a sequence of characters: a
\* "(" that is never closed is a syntax error; a string of letters compiles
\* to the search for that string.
CompileFailsNever(r) == FALSE

CompileFails(r) ==
    \E i \in 1..Len(r) : r[i] = "(" /\ ~(\E j \in (i + 1)..Len(r) : r[j] = ")")

Compile(r) == r

FirstFailing(regexes) ==
    LET bad == {i \in 1..Len(regexes) : CompileFails(regexes[i])}
    IN IF bad = {} THEN 0 ELSE CHOOSE i \in bad : \A j \in bad : i <= j

\* fmt.Sprintf("Rule #%d", i+1), i the index of "for i, rule := range".
DefaultNameZeroBased(i) == "Rule #" \o ToString(i)

DefaultName(i) == "Rule #" \o ToString(i + 1)

\* The compiled rule appended to compiledRules: the name, the collections,
\* the compiled patterns and the authors are set, every other field of
\* CompiledRuleSet keeps its zero value.
CompiledOf(name, rule) ==
    MkRule(name, rule.Collections,
           [i \in 1..Len(rule.TextRegexes) |-> Compile(rule.TextRegexes[i])],
           [i \in 1..Len(rule.UrlRegexes) |-> Compile(rule.UrlRegexes[i])],
           IF Len(rule.Authors) > 0 THEN Range(rule.Authors) ELSE {},
           {}, <<>>, <<>>, Nil)

\* The collections subscribed to when no rule names any.
DefaultCollectionsNone == {}

DefaultCollections == {"app.bsky.feed.post"}

\* The process has not been ended by log.Fatalf.
Running == mpc # "exited"

\* One pass of "for i, rule := range config.Rules".  log.Fatalf prints the
\* message and exits the process.
MainCompileRule ==
    /\ mpc = "compile"
    /\ ci <= Len(config)
    /\ LET rule == config[ci]
           name == IF rule.Name = "" THEN DefaultName(ci - 1) ELSE rule.Name
           badText == FirstFailing(rule.TextRegexes)
           badUrl == FirstFailing(rule.UrlRegexes)
       IN /\ ruleNames' = Append(ruleNames, name)
          /\ collectionsMap' = collectionsMap \cup Range(rule.Collections)
          /\ IF badText # 0
             THEN /\ fatal' = [what |-> "text regex", regex |-> rule.TextRegexes[badText],
                               rule |-> name]
                  /\ mpc' = "exited"
                  /\ UNCHANGED <<compiledRules, ci>>
             ELSE IF badUrl # 0
             THEN /\ fatal' = [what |-> "url regex", regex |-> rule.UrlRegexes[badUrl],
                               rule |-> name]
                  /\ mpc' = "exited"
                  /\ UNCHANGED <<compiledRules, ci>>
             ELSE /\ compiledRules' = Append(compiledRules, CompiledOf(name, rule))
                  /\ ci' = ci + 1
                  /\ UNCHANGED <<mpc, fatal>>
    /\ UNCHANGED <<config, collections, started, listing, evalVars, dispVars, hubVars, statsVars>>

\* After the loop: the collections to subscribe to are those of the map, or
\* the default when the map is empty.
MainCollections ==
    /\ mpc = "compile"
    /\ ci > Len(config)
    /\ collections' = IF collectionsMap = {} THEN DefaultCollections ELSE collectionsMap
    /\ mpc' = "hub"
    /\ UNCHANGED <<config, ci, compiledRules, ruleNames, collectionsMap, started,
                   fatal, listing, evalVars, dispVars, hubVars, statsVars>>

\* "hub := NewHub(); go hub.Run()".
MainStartHub ==
    /\ mpc = "hub"
    /\ started' = started \cup {"hub"}
    /\ mpc' = "dispatcher"
    /\ UNCHANGED <<config, ci, compiledRules, ruleNames, collectionsMap,
                   collections, fatal, listing, evalVars, dispVars, hubVars, statsVars>>

\* "go StartDispatcher(runtime.NumCPU(), jobQueue, hub.broadcast, compiledRules)".
MainStartDispatcher ==
    /\ mpc = "dispatcher"
    /\ started' = started \cup {"dispatcher"}
    /\ rules' = compiledRules
    /\ wg' = NumWorkers
    /\ mpc' = "consumer"
    /\ UNCHANGED <<config, ci, compiledRules, ruleNames, collectionsMap,
                   collections, fatal, listing, evalVars, hubVars,
                   jobs, closed, produced, pc, cur, ridx, matchedRules, data,
                   broadcast, counts, returned, errLog, deq, outcome, pushes,
                   pendingAtClose, statsVars>>

\* "go func() { ... }()": the consumer goroutine is started.
MainStartConsumer ==
    /\ mpc = "consumer"
    /\ started' = started \cup {"consumer"}
    /\ mpc' = "listen"
    /\ UNCHANGED <<config, ci, compiledRules, ruleNames, collectionsMap,
                   collections, fatal, listing, evalVars, dispVars, hubVars, statsVars>>

\* The consumer goroutine: NewCustomInstance and StreamEvents succeed, the
\* connection to the event source is open.
ConsumerConnect ==
    /\ Running
    /\ "consumer" \in started
    /\ started \cap {"source", "source failed"} = {}
    /\ started' = started \cup {"source"}
    /\ UNCHANGED <<config, mpc, ci, compiledRules, ruleNames, collectionsMap,
                   collections, fatal, listing, evalVars, dispVars, hubVars, statsVars>>

\* The consumer goroutine: one of the two calls fails, the error is logged
\* and the goroutine returns.
ConsumerFails ==
    /\ Running
    /\ "consumer" \in started
    /\ started \cap {"source", "source failed"} = {}
    /\ started' = started \cup {"source failed"}
    /\ UNCHANGED <<config, mpc, ci, compiledRules, ruleNames, collectionsMap,
                   collections, fatal, listing, evalVars, dispVars, hubVars, statsVars>>

\* "http.ListenAndServe(addr, nil)": the handlers are registered and the
\* socket is listening.
MainListen ==
    /\ mpc = "listen"
    /\ started' = started \cup {"http"}
    /\ mpc' = "serving"
    /\ UNCHANGED <<config, ci, compiledRules, ruleNames, collectionsMap,
                   collections, fatal, listing, evalVars, dispVars, hubVars, statsVars>>

\* "http.ListenAndServe(addr, nil)" returns an error: log.Fatal.
MainListenFails ==
    /\ mpc = "listen"
    /\ fatal' = [what |-> "ListenAndServe", regex |-> <<>>, rule |-> ""]
    /\ mpc' = "exited"
    /\ UNCHANGED <<config, ci, compiledRules, ruleNames, collectionsMap,
                   collections, started, listing, evalVars, dispVars, hubVars, statsVars>>

\* The handler of "/rules": the response is the JSON encoding of ruleNames.
ServeRules ==
    /\ Running
    /\ "http" \in started
    /\ listing' = [body |-> ruleNames]
    /\ UNCHANGED <<config, mpc, ci, compiledRules, ruleNames, collectionsMap,
                   collections, started, fatal, evalVars, dispVars, hubVars, statsVars>>

\* StreamEvents was called with "Collections: collections": the stream
\* carries the events of the collections asked for; what the source makes of
\* the entry "*" is not the program's, so with it any event may arrive.
SubscribedAny(cs, e) == TRUE

Subscribed(cs, e) == "*" \in cs \/ collectionOf(e) \in cs

\* The consumer goroutine with the stream open: "jobQueue <- event".
MainProduce(e) ==
    /\ Running
    /\ "source" \in started
    /\ Subscribed(collections, e)
    /\ Produce(e)

\* The workers and the hub's reader of the broadcast channel, while the
\* process lives.  main never closes jobQueue, so no worker ever returns.
MainWorkerRecv(w) == Running /\ "dispatcher" \in started /\ WorkerRecv(w)
MainWorkerEvalRule(w) == Running /\ WorkerEvalRule(w)
MainWorkerBuild(w) == Running /\ WorkerBuild(w)
MainWorkerSend(w) == Running /\ WorkerSend(w)
MainHubBroadcast == Running /\ "hub" \in started /\ HubBroadcast

\* The declared rule lists the startup is run on.
Declared(name, colls, text, url) ==
    MkRuleSet(name, colls, text, url, <<>>, <<>>, <<>>, <<>>, Nil)

Configs ==
    {<<>>,
     << Declared("", <<"app.bsky.feed.post">>, << <<"a">> >>, <<>>),
        Declared("likes", <<"app.bsky.feed.like">>, <<>>, <<>>) >>,
     << Declared("likes", <<"app.bsky.feed.like">>, <<>>, <<>>),
        Declared("", <<>>, << <<"a">>, <<"(", "b">> >>, <<>>) >>,
     << Declared("links", <<"app.bsky.feed.post">>, <<>>, << <<"(">> >>) >>,
     << MkRuleSet("likes of", <<"app.bsky.feed.like">>, <<>>, <<>>, <<>>,
                  <<"did:plc:other">>, <<>>, <<>>, Nil),
        Declared("inherit", <<>>, <<>>, <<>>) >>,
     << Declared("all", <<"*">>, <<>>, <<>>) >>}

InitMain ==
    /\ InitEvalIdle
    /\ InitDispIdle
    /\ InitHubIdle
    /\ InitStatsIdle
    /\ config \in Configs
    /\ mpc = "compile"
    /\ ci = 1
    /\ compiledRules = <<>>
    /\ ruleNames = <<>>
    /\ collectionsMap = {}
    /\ collections = {}
    /\ started = {}
    /\ fatal = Nil
    /\ listing = Nil

NextMain ==
    \/ MainCompileRule
    \/ MainCollections
    \/ MainStartHub
    \/ MainStartDispatcher
    \/ MainStartConsumer
    \/ ConsumerConnect
    \/ ConsumerFails
    \/ MainListen
    \/ MainListenFails
    \/ ServeRules
    \/ \E e \in PipeEvents : MainProduce(e)
    \/ \E w \in Workers : MainWorkerRecv(w)
    \/ \E w \in Workers : MainWorkerEvalRule(w)
    \/ \E w \in Workers : MainWorkerBuild(w)
    \/ \E w \in Workers : MainWorkerSend(w)
    \/ MainHubBroadcast

SpecMain == InitMain /\ [][NextMain]_vars

Next ==
    \/ \E e \in PipeEvents : Produce(e)
    \/ CloseJobs
    \/ \E w \in Workers : WorkerRecv(w)
    \/ \E w \in Workers : WorkerExit(w)
    \/ \E w \in Workers : WorkerEvalRule(w)
    \/ \E w \in Workers : WorkerBuild(w)
    \/ \E w \in Workers : WorkerSend(w)
    \/ StartDispatcherReturn
    \/ HubBroadcast

Spec == Init /\ [][Next]_vars

\* ================================================================ claims

\* What it is for a criterion present on rule r to hold for event e, stated
\* on sets, independently of the order of the checks of the loop body.
IsPost(e) == e.Post # Nil
CollectionHolds(e, r) == "*" \in Range(r.Collections) \/ collectionOf(e) \in Range(r.Collections)
AuthorHolds(e, r) == authorDIDOf(e) \in r.Authors
TargetHolds(e, r) == targetUserDIDOf(e) \in r.TargetUsers \ {""}
TextHolds(e, r) == IsPost(e) /\ \E p \in Range(r.TextPatterns) : MatchString(p, e.Post.Text)
UrlHolds(e, r) ==
    /\ IsPost(e) /\ e.Post.Embed # Nil /\ e.Post.Embed.External # Nil
    /\ \E p \in Range(r.UrlPatterns) : MatchString(p, e.Post.Embed.External.URL)
EmbedHolds(e, r) ==
    /\ IsPost(e) /\ e.Post.Embed # Nil
    /\ \E t \in Range(r.EmbedTypes) : EmbedTypeHit(t, e.Post.Embed)
LangHolds(e, r) == IsPost(e) /\ Range(e.Post.Languages) \cap Range(r.Langs) # {}
ReplyHolds(e, r) == IsPost(e) /\ (r.IsReply.v <=> e.Post.ReplyInfo # Nil)

RefMatches(e, r) ==
    /\ r.Collections # <<>> => CollectionHolds(e, r)
    /\ r.Authors # {} => AuthorHolds(e, r)
    /\ r.TargetUsers # {} => TargetHolds(e, r)
    /\ r.TextPatterns # <<>> => TextHolds(e, r)
    /\ r.UrlPatterns # <<>> => UrlHolds(e, r)
    /\ r.EmbedTypes # <<>> => EmbedHolds(e, r)
    /\ r.Langs # <<>> => LangHolds(e, r)
    /\ r.IsReply # Nil => ReplyHolds(e, r)

\* The eight checks of the loop body taken last to first.
ChecksReversed(e, r) ==
    /\ CheckIsReply(r, e)
    /\ CheckLangs(r, e)
    /\ CheckEmbedTypes(r, e)
    /\ CheckUrlPatterns(r, e)
    /\ CheckTextPatterns(r, e)
    /\ CheckTargetUser(r, targetUserDIDOf(e))
    /\ CheckAuthor(r, authorDIDOf(e))
    /\ CheckCollection(r, collectionOf(e))

\* C1: once the loop body has run for event E and rule R, it reports a match
\* iff every criterion present on R holds for E (the reference conjunction of
\* the eight criteria), and the checks taken in the opposite order agree.
C1_EvaluateIsConjunction ==
    evDone =>
        /\ evResult = RefMatches(evEvent, evRule)
        /\ evResult = ChecksReversed(evEvent, evRule)

\* C1 witness: a rule with all eight criteria present has matched an event.
C1_Witness ==
    /\ evDone /\ evResult
    /\ evRule.Collections # <<>> /\ evRule.Authors # {} /\ evRule.TargetUsers # {}
    /\ evRule.TextPatterns # <<>> /\ evRule.UrlPatterns # <<>>
    /\ evRule.EmbedTypes # <<>> /\ evRule.Langs # <<>> /\ evRule.IsReply # Nil

\* ------------------------------------------------- claims on the dispatcher
\* The names of the rules of the list whose criteria all hold for e, in
\* declaration order.
ExpectedNames(e) ==
    LET F[i \in 0..Len(rules)] ==
            IF i = 0 THEN <<>>
            ELSE IF RefMatches(e, rules[i]) THEN Append(F[i - 1], rules[i].Name)
            ELSE F[i - 1]
    IN F[Len(rules)]

\* Event instance id has been taken through the whole loop body by a worker
\* that is no longer waiting to push for it.
Finished(id) ==
    /\ outcome[id] # <<>>
    /\ \A w \in Workers : ~(cur[w].id = id /\ pc[w] \in {"eval", "build", "send"})

EventOf(id) == outcome[id][1].event

Serializable(e) == ~MarshalFails(BroadcastMessage(e, <<>>))

OneEnvelope(id) ==
    /\ Len(pushes[id]) = 1
    /\ pushes[id][1] # NoData
    /\ pushes[id][1].matchedRules = ExpectedNames(EventOf(id))

\* C2 as stated: every event that matches k >= 1 RuleSets has, once its
\* worker is done with it, exactly one envelope pushed, with exactly the
\* matching names in declaration order.
C2_Original ==
    \A id \in EventIds :
        (Finished(id) /\ ExpectedNames(EventOf(id)) # <<>>) => OneEnvelope(id)

\* C2 amended: at most one envelope is ever pushed for an event and it names
\* exactly the matching RuleSets in declaration order; once the worker is
\* done with an event matching k >= 1 RuleSets exactly one envelope has been
\* pushed, unless serializing its envelope failed, and then none has.
C2_OneEnvelopePerMatchedEvent ==
    \A id \in EventIds :
        /\ Len(pushes[id]) <= 1
        /\ pushes[id] # <<>> => OneEnvelope(id)
        /\ (Finished(id) /\ ExpectedNames(EventOf(id)) # <<>>) =>
              IF Serializable(EventOf(id)) THEN OneEnvelope(id) ELSE pushes[id] = <<>>

\* C2 witness: with two workers busy, an event matching two RuleSets that
\* are separated by a non-matching one has been pushed as one envelope.
C2_Witness ==
    \E id \in EventIds :
        /\ Finished(id) /\ OneEnvelope(id)
        /\ Len(rules) = 3
        /\ pushes[id][1].matchedRules = <<rules[1].Name, rules[3].Name>>
        /\ \E j \in EventIds : j # id /\ deq[j] = 1

\* C3: nothing is ever pushed for an event that matches no RuleSet, so every
\* envelope on the broadcast channel (or held by a worker for pushing) has a
\* non-empty matchedRules list.
C3_NoEnvelopeWithoutMatch ==
    /\ \A i \in 1..Len(broadcast) :
          broadcast[i].bytes # NoData /\ Len(broadcast[i].bytes.matchedRules) > 0
    /\ \A id \in EventIds :
          (outcome[id] # <<>> /\ ExpectedNames(EventOf(id)) = <<>>) => pushes[id] = <<>>
    /\ \A w \in Workers : pc[w] = "send" => ExpectedNames(cur[w].event) # <<>>

\* C3 witness: an event matching no RuleSet has been fully processed and left
\* nothing behind, while an envelope of another event is on the channel.
C3_Witness ==
    /\ broadcast # <<>>
    /\ \E id \in EventIds :
          /\ Finished(id) /\ outcome[id][1].matched = <<>> /\ pushes[id] = <<>>
          /\ broadcast[1].id # id

\* C10: a failed serialization is logged, nothing is pushed for that event,
\* the worker is back at the head of its loop, neither stopped nor waiting,
\* and every other event keeps its own outcome.
C10_FailureStep ==
    \A w \in Workers :
        (/\ pc[w] = "build"
         /\ pc'[w] # "build"
         /\ ShouldBroadcast(matchedRules[w])
         /\ MarshalFails(BroadcastMessage(cur[w].event, matchedRules[w])))
        => /\ pc'[w] = "recv"
           /\ [id |-> cur[w].id, by |-> w] \in errLog'
           /\ broadcast' = broadcast
           /\ pushes' = pushes
           /\ wg' = wg
           /\ \A v \in Workers \ {w} : pc'[v] = pc[v] /\ cur'[v] = cur[v]

C10_OthersUnaffected ==
    \A id \in {l.id : l \in errLog} :
        /\ pushes[id] = <<>>
        /\ \A j \in EventIds \ {id} :
              Finished(j) =>
                  /\ outcome[j][1].matched = ExpectedNames(EventOf(j))
                  /\ (Serializable(EventOf(j)) /\ ExpectedNames(EventOf(j)) # <<>>)
                        => OneEnvelope(j)

C10_SerializationFailureIsDropped ==
    [](C10_OthersUnaffected) /\ [][C10_FailureStep]_vars

\* C10 witness: a worker whose serialization of one event failed has gone on
\* to a later event, matched it and serialized its envelope, which it is
\* about to push.
C10_Witness ==
    \E l \in errLog :
        /\ pc[l.by] = "send"
        /\ cur[l.by].id > l.id
        /\ data[l.by] # NoData
        /\ pushes[l.id] = <<>>

\* C24: a worker holding a serialized envelope keeps it, and its event,
\* until it has pushed it; with the broadcast channel full it can take no
\* step at all, with room the push is its next step, and it is the envelope
\* it held that goes onto the channel.  A worker waits nowhere else: at the
\* rules and at the building of the envelope it can always step, at the head
\* of the loop it can whenever the inbound queue holds an event.
C24_Step ==
    \A w \in Workers :
        pc[w] = "send" =>
            \/ pc'[w] = "send" /\ data'[w] = data[w] /\ cur'[w] = cur[w]
            \/ /\ Len(broadcast) < BroadcastCap
               /\ broadcast' = Append(broadcast, [id |-> cur[w].id, bytes |-> data[w]])
               /\ pushes'[cur[w].id] = <<data[w]>>
               /\ pc'[w] = "recv"

C24_WaitingPoints ==
    \A w \in Workers :
        /\ pc[w] = "send" => data[w] # NoData /\ pushes[cur[w].id] = <<>>
        /\ (pc[w] = "send" /\ Len(broadcast) >= BroadcastCap) => ~ENABLED WorkerStep(w)
        /\ (pc[w] = "send" /\ Len(broadcast) < BroadcastCap) => ENABLED WorkerSend(w)
        /\ pc[w] \in {"eval", "build"} => ENABLED WorkerStep(w)
        /\ (pc[w] = "recv" /\ jobs # <<>>) => ENABLED WorkerRecv(w)

C24_Backpressure == [](C24_WaitingPoints) /\ [][C24_Step]_vars

\* C24 witness: the broadcast channel is full, a worker holds the envelope of
\* another event and waits, while an event is queued that the other worker
\* can take.
C24_Witness ==
    \E w \in Workers :
        /\ pc[w] = "send"
        /\ Len(broadcast) = BroadcastCap
        /\ broadcast[1].id # cur[w].id
        /\ data[w] # NoData

\* C26: an event is dequeued at most once and evaluated at most once, no two
\* workers hold the same event, no event yields more than one envelope, and
\* none is skipped: an enqueued event is on the queue until it is dequeued,
\* and a dequeued event is with a worker or has been evaluated.
C26_ExactlyOnce ==
    /\ \A id \in EventIds :
          /\ deq[id] <= 1
          /\ Len(outcome[id]) <= 1
          /\ Len(pushes[id]) <= 1
          /\ id > produced => deq[id] = 0
          /\ id <= produced =>
                (deq[id] = 0 <=> \E i \in 1..Len(jobs) : jobs[i].id = id)
          /\ deq[id] = 1 =>
                (\E w \in Workers : cur[w].id = id) \/ Len(outcome[id]) = 1
    /\ \A v, w \in Workers : (v # w /\ cur[v].id # 0) => cur[v].id # cur[w].id

\* C26 witness: two workers are evaluating two events at the same time.
C26_Witness ==
    \E v, w \in Workers :
        /\ v # w
        /\ pc[v] = "eval" /\ pc[w] = "eval"
        /\ cur[v].id # cur[w].id
        /\ deq[cur[v].id] = 1 /\ deq[cur[w].id] = 1

\* C27: the list of matched names recorded for an event is the list of the
\* names of the rules whose criteria hold for it, a function of the event and
\* the rules; so is the list a worker has when it is through the rules; two
\* events that are equal have equal lists.
C27_MatchedIsFunctionOfEvent ==
    /\ \A id \in EventIds :
          outcome[id] # <<>> => outcome[id][1].matched = ExpectedNames(EventOf(id))
    /\ \A w \in Workers : pc[w] = "build" => matchedRules[w] = ExpectedNames(cur[w].event)
    /\ \A i, j \in EventIds :
          (outcome[i] # <<>> /\ outcome[j] # <<>> /\ EventOf(i) = EventOf(j))
              => outcome[i][1].matched = outcome[j][1].matched

\* C27 witness: after an event whose serialization failed and with counters
\* already counting, an event equal to it but for the raw commit has been
\* given the same matched names.
C27_Witness ==
    \E l \in errLog, id \in EventIds :
        /\ id > l.id
        /\ outcome[id] # <<>>
        /\ EventOf(id).RawCommit # EventOf(l.id).RawCommit
        /\ outcome[id][1].matched = outcome[l.id][1].matched
        /\ outcome[id][1].matched # <<>>
        /\ counts # <<>>

\* ------------------------------------------------------------ termination
\* A goroutine that can run is scheduled: the reader of the broadcast
\* channel, the goroutine waiting in wg.Wait(), and the worker pool (while
\* some worker can step, some worker does; no fairness between the workers
\* is assumed).
Fairness ==
    /\ WF_vars(HubBroadcast)
    /\ WF_vars(StartDispatcherReturn)
    /\ WF_vars(\E w \in Workers : WorkerStep(w))

LiveSpec == Spec /\ Fairness

Drained ==
    /\ jobs = <<>>
    /\ \A w \in Workers : pc[w] = "exit"
    /\ wg = 0
    /\ \A id \in 1..produced :
          /\ deq[id] = 1
          /\ Len(outcome[id]) = 1
          /\ outcome[id][1].matched = ExpectedNames(EventOf(id))
          /\ (ExpectedNames(EventOf(id)) # <<>> /\ Serializable(EventOf(id)))
                => OneEnvelope(id)

Broadcasts(m) == broadcast # <<>> /\ Head(broadcast).id = m /\ broadcast' = Tail(broadcast)

MsgIds == 1..MaxMsgs

HasRoom(s) == Len(outbox[s]) < SinkCap

Sent(s, m) == got'[s] = Append(got[s], m) /\ outbox'[s] = Append(outbox[s], m)

Evicts(s) ==
    /\ s \notin clients'
    /\ sinkState'[s] = "closed"
    /\ closeCount'[s] = closeCount[s] + 1
    /\ got'[s] = got[s]

\* C4: a broadcast hands the message to every registered sink with room and
\* evicts (unregisters and closes) every registered sink whose buffer is full,
\* in the same step; a pending broadcast can always be handled, whatever the
\* sinks' buffers hold; a closed sink is never sent anything again.
C4_Step ==
    \A m \in MsgIds :
        Broadcasts(m) =>
            \A s \in clients :
                IF HasRoom(s) THEN Sent(s, m) /\ s \in clients' ELSE Evicts(s)

C4_NeverSentAgain ==
    \A s \in Sinks : sinkState[s] = "closed" => got'[s] = got[s] /\ outbox'[s] = outbox[s]

C4_BroadcastIsolation ==
    /\ [](broadcast # <<>> => ENABLED HubBroadcast)
    /\ [][C4_Step /\ C4_NeverSentAgain]_vars

\* C4 witness: B, whose buffer was full, has been evicted and closed once by
\* a broadcast that reached A, and A has been handed a later broadcast too.
C4_Witness ==
    /\ "B" \in evicted /\ sinkState["B"] = "closed" /\ closeCount["B"] = 1
    /\ got["B"] = <<1>>
    /\ got["A"] = <<1, 2, 3>>
    /\ "A" \in clients

\* C5: the subscriber set is exactly the sinks registered and not yet
\* removed; only a member of the set is sent a broadcast, no sink is sent the
\* same broadcast twice, and a broadcast passes over no member that was
\* registered before the broadcast was submitted (a member with a full buffer
\* is evicted instead).
C5_SetIsRegistered ==
    /\ clients = {s \in Sinks : sinkState[s] = "registered"}
    /\ \A s \in Sinks : \A i, j \in 1..Len(got[s]) : i < j => got[s][i] < got[s][j]

C5_Step ==
    /\ \A s \in Sinks : got'[s] # got[s] => s \in clients /\ sinkState[s] = "registered"
    /\ \A m \in MsgIds :
          Broadcasts(m) =>
              \A s \in Sinks :
                  (sinkState[s] = "registered" /\ regAt[s].submitted < m)
                      => (Sent(s, m) \/ (~HasRoom(s) /\ Evicts(s)))

C5_SubscriberSetIntact ==
    [](C5_SetIsRegistered) /\ [][C5_Step]_vars

\* C5 witness: with three sinks registered and requests of two tasks in, one
\* sink was unregistered after the first broadcast, one evicted by the
\* second, and the third has been sent every broadcast.
C5_Witness ==
    /\ unregSent = Tasks
    /\ \E s \in Sinks \ {"B"}, t \in Sinks \ {"B"} :
          /\ s # t
          /\ sinkState[s] = "closed" /\ s \notin evicted /\ got[s] = <<1>>
          /\ "B" \in evicted /\ got["B"] = <<1>>
          /\ t \in clients /\ got[t] = <<1, 2, 3>>

C7_Step ==
    \A s \in Sinks :
        (unregQ'[s] < unregQ[s] /\ s \notin clients) =>
            /\ clients' = clients
            /\ sinkState' = sinkState
            /\ closeCount' = closeCount
            /\ outbox' = outbox
            /\ got' = got
            /\ regQ' = regQ
            /\ broadcast' = broadcast

C7_UnregisterIdempotent ==
    /\ [](\A s \in Sinks : unregQ[s] > 0 => ENABLED HubUnregister(s))
    /\ [][C7_Step]_vars

\* C7 witness: two Unregister messages for the one sink that ever connected
\* have been handled, and its transport was closed once.
C7_Witness ==
    \E s \in Sinks :
        /\ \A t \in Sinks \ {s} : sinkState[t] = "new"
        /\ unregSent = Tasks
        /\ unregQ[s] = 0
        /\ sinkState[s] = "closed" /\ s \notin evicted /\ closeCount[s] = 1

\* C8: a sink's transport is closed at most once, exactly once when the sink
\* is closed, and a closed sink stays closed, whether an Unregister message
\* or an eviction comes first.
C8_ClosedOnce ==
    /\ [](\A s \in Sinks :
            /\ closeCount[s] <= 1
            /\ (sinkState[s] = "closed") = (closeCount[s] = 1))
    /\ [][\A s \in Sinks : sinkState[s] = "closed" => sinkState'[s] = "closed"]_vars

\* C8 witness: B was evicted by a broadcast and an Unregister message for it
\* was handled as well; its transport was closed once.
C8_Witness ==
    /\ "B" \in evicted
    /\ \A t \in Sinks \ {"B"} : sinkState[t] = "new"
    /\ unregSent # {}
    /\ unregQ["B"] = 0
    /\ closeCount["B"] = 1

\* ------------------------------------------- claims on the single criteria
\* The reference conjunction of the criteria present on r, the k-th left out.
RefExcept(e, r, k) ==
    /\ (k # 1 /\ r.Collections # <<>>) => CollectionHolds(e, r)
    /\ (k # 2 /\ r.Authors # {}) => AuthorHolds(e, r)
    /\ (k # 3 /\ r.TargetUsers # {}) => TargetHolds(e, r)
    /\ (k # 4 /\ r.TextPatterns # <<>>) => TextHolds(e, r)
    /\ (k # 5 /\ r.UrlPatterns # <<>>) => UrlHolds(e, r)
    /\ (k # 6 /\ r.EmbedTypes # <<>>) => EmbedHolds(e, r)
    /\ (k # 7 /\ r.Langs # <<>>) => LangHolds(e, r)
    /\ (k # 8 /\ r.IsReply # Nil) => ReplyHolds(e, r)

HasWildcard(r) == "*" \in Range(r.Collections)

\* C11: once a rule whose collection list contains "*" has been evaluated,
\* the verdict is that of its other seven criteria: the event's collection,
\* whatever it is and also when it is empty, plays no part.
C11_WildcardIgnoresCollection ==
    (evDone /\ HasWildcard(evRule)) => evResult = RefExcept(evEvent, evRule, 1)

\* C11 witness: a rule listing "*" next to another collection has matched an
\* event whose collection is empty and is not the other entry.
C11_Witness ==
    /\ evDone /\ evResult
    /\ HasWildcard(evRule) /\ Len(evRule.Collections) = 2
    /\ evClass.collection = ""

\* C12: with an empty authors set the verdict is that of the other seven
\* criteria whoever the author is; with a non-empty set the rule matches only
\* an event whose author is a member of the set, and for a member the verdict
\* is that of the other seven criteria.
C12_AuthorsExactMembers ==
    evDone =>
        /\ evRule.Authors = {} => evResult = RefExcept(evEvent, evRule, 2)
        /\ (evRule.Authors # {} /\ evEvent.Repo \notin evRule.Authors) => ~evResult
        /\ (evRule.Authors # {} /\ evEvent.Repo \in evRule.Authors)
              => evResult = RefExcept(evEvent, evRule, 2)

\* C12 witness: a rule with a non-empty authors set has rejected an event
\* that meets every other criterion of the rule and whose author is not in
\* the set.
C12_Witness ==
    /\ evDone /\ ~evResult
    /\ evRule.Authors # {} /\ evEvent.Repo \notin evRule.Authors
    /\ RefExcept(evEvent, evRule, 2)
    /\ evRule.Collections # <<>>

\* The URI the target is taken from, <<>> when the event has none.
TargetUri(e) ==
    IF e.LikeEvent # Nil /\ e.LikeEvent.Subject # Nil THEN e.LikeEvent.Subject.URI
    ELSE IF e.RepostEvent # Nil /\ e.RepostEvent.Subject # Nil THEN e.RepostEvent.Subject.URI
    ELSE IF e.Post # Nil /\ e.Post.ReplyInfo # Nil THEN e.Post.ReplyInfo.ReplyTarget.URI
    ELSE <<>>

\* A URI without the "at://" prefix, or of fewer than three "/"-separated
\* segments.
Malformed(uri) == Len(uri) < 3 \/ uri[1] # "at:" \/ uri[2] # ""

HasPostOnlyCriterion(r) ==
    \/ r.TextPatterns # <<>>
    \/ r.UrlPatterns # <<>>
    \/ r.EmbedTypes # <<>>
    \/ r.Langs # <<>>

\* C14: a rule that has a text-pattern, URL-pattern, embed-kind or language
\* criterion does not match an event that carries no post; the evaluation
\* ends with that verdict like any other.
C14_PostOnlyCriteriaFailNonPosts ==
    (evDone /\ evEvent.Post = Nil /\ HasPostOnlyCriterion(evRule)) => ~evResult

\* C14 witness: a rule whose only criterion besides the wildcard collection is
\* a language list has rejected a like.
C14_Witness ==
    /\ evDone /\ ~evResult
    /\ evEvent.Type = EventTypeLike
    /\ evRule.Langs # <<>>
    /\ RefExcept(evEvent, evRule, 7)
    /\ evRule.TextPatterns = <<>> /\ evRule.UrlPatterns = <<>> /\ evRule.EmbedTypes = <<>>

\* C15: a rule with isReply = true matches only posts that have a reply
\* target, a rule with isReply = false only posts that have none, and for
\* such posts, as for every event when the rule has no reply constraint, the
\* verdict is that of the other seven criteria.
C15_ReplyConstraint ==
    evDone =>
        /\ (evRule.IsReply # Nil /\ evResult)
              => /\ evEvent.Post # Nil
                 /\ evRule.IsReply.v = (evEvent.Post.ReplyInfo # Nil)
        /\ (evRule.IsReply # Nil /\ evEvent.Post # Nil
              /\ evRule.IsReply.v = (evEvent.Post.ReplyInfo # Nil))
              => evResult = RefExcept(evEvent, evRule, 8)
        /\ evRule.IsReply = Nil => evResult = RefExcept(evEvent, evRule, 8)

\* C15 witness: a rule with isReply = false has rejected a reply post that
\* meets every other criterion of the rule.
C15_Witness ==
    /\ evDone /\ ~evResult
    /\ evRule.IsReply = BoolPtr(FALSE)
    /\ evEvent.Post # Nil /\ evEvent.Post.ReplyInfo # Nil
    /\ RefExcept(evEvent, evRule, 8)
    /\ evRule.Authors # {}

\* ------------------------------------------------------ claims on startup
\* The process was started with no rule declared.
ZeroRules == config = <<>>

\* C16 (as stated): with zero rules declared the process matches everything:
\* the subscription has no collection restriction and an event a worker has
\* taken through its loop body has been broadcast.
C16_Original ==
    ZeroRules =>
        /\ mpc \notin {"compile", "exited"} => collections = {}
        /\ \A id \in EventIds : Finished(id) => pushes[id] # <<>>

\* C16 (amended): with zero rules declared no rule is compiled, the
\* subscription is to the post collection only, no event matches and nothing
\* is ever pushed onto the broadcast channel.
C16_ZeroRulesBroadcastNothing ==
    ZeroRules =>
        /\ compiledRules = <<>>
        /\ ruleNames = <<>>
        /\ mpc \notin {"compile", "exited"} => collections = {"app.bsky.feed.post"}
        /\ "dispatcher" \in started => rules = <<>>
        /\ broadcast = <<>>
        /\ \A id \in EventIds :
              /\ pushes[id] = <<>>
              /\ outcome[id] # <<>> => outcome[id][1].matched = <<>>

\* C16 witness: a process with zero rules is subscribed to the posts, its
\* source is streaming and a worker has finished an event, unbroadcast.
C16_Witness ==
    /\ ZeroRules
    /\ "source" \in started
    /\ collections = {"app.bsky.feed.post"}
    /\ \E id \in EventIds : Finished(id) /\ pushes[id] = <<>>

\* The pattern strings of the declared rules that are not regular
\* expressions.
MalformedPatterns == {<<"(", "b">>, <<"(">>}

HasMalformed(cfg) ==
    \E k \in 1..Len(cfg) :
        \/ \E i \in 1..Len(cfg[k].TextRegexes) : cfg[k].TextRegexes[i] \in MalformedPatterns
        \/ \E i \in 1..Len(cfg[k].UrlRegexes) : cfg[k].UrlRegexes[i] \in MalformedPatterns

\* C17: a process whose configuration holds a malformed text or URL pattern
\* never starts the hub, the dispatcher, the consumer or the HTTP server and
\* hands no rule to a worker; once the process has ended on the pattern it
\* stays ended with nothing started; whatever is started runs with every
\* declared rule compiled, every pattern of it included.
C17_FailFast ==
    /\ HasMalformed(config) =>
          /\ started = {}
          /\ mpc \in {"compile", "exited"}
          /\ rules = <<>>
          /\ jobs = <<>>
          /\ listing = Nil
    /\ (fatal # Nil /\ fatal.what \in {"text regex", "url regex"}) =>
          /\ mpc = "exited"
          /\ started = {}
          /\ fatal.regex \in MalformedPatterns
    /\ started # {} =>
          /\ Len(compiledRules) = Len(config)
          /\ \A k \in 1..Len(config) :
                /\ Len(compiledRules[k].TextPatterns) = Len(config[k].TextRegexes)
                /\ Len(compiledRules[k].UrlPatterns) = Len(config[k].UrlRegexes)

\* C17 witness: the second rule's second text pattern is malformed; the
\* process has ended on it after compiling the first rule, nothing started.
C17_Witness ==
    /\ fatal # Nil
    /\ fatal.what = "text regex"
    /\ fatal.regex = <<"(", "b">>
    /\ mpc = "exited"
    /\ Len(compiledRules) = 1
    /\ started = {}

\* C20: every compiled rule has a non-empty name, its declared name when it
\* has one and "Rule #<i+1>" when it is declared unnamed at 0-based position
\* i (position k = i + 1 counted from one); the names recorded for the
\* listing, and a listing served, are those names in declaration order.
C20_Names ==
    /\ \A k \in 1..Len(compiledRules) :
          /\ compiledRules[k].Name # ""
          /\ config[k].Name # "" => compiledRules[k].Name = config[k].Name
          /\ config[k].Name = "" => compiledRules[k].Name = "Rule #" \o ToString(k)
          /\ ruleNames[k] = compiledRules[k].Name
    /\ \A k \in 1..Len(ruleNames) :
          ruleNames[k] = IF config[k].Name = "" THEN "Rule #" \o ToString(k)
                         ELSE config[k].Name
    /\ listing # Nil =>
          /\ Len(listing.body) = Len(config)
          /\ \A k \in 1..Len(config) : listing.body[k] = compiledRules[k].Name

\* C20 witness: the listing of a process whose first rule is declared
\* unnamed and whose second rule is declared "likes" has been served.
C20_Witness ==
    /\ listing # Nil
    /\ config # <<>>
    /\ config[1].Name = ""
    /\ listing.body = <<"Rule #1", "likes">>

\* ----------------------------------------------------- claims on the envelope
\* C18: the event field of an envelope pushed for an event is the event's
\* raw commit when the event has one and the event itself when it has none.
C18_EventIsRawOrEvent ==
    \A id \in EventIds :
        \A k \in 1..Len(pushes[id]) :
            pushes[id][k].event =
                IF EventOf(id).RawCommit # Nil THEN EventOf(id).RawCommit
                ELSE EventOf(id)

\* The handle available on an event: the post author's, else the user's.
HandleOn(e) == IF e.User # Nil THEN e.User.Handle ELSE ""

\* C19 (as stated): the envelope of an event with a handle carries it as
\* authorHandle, the envelope of an event without one has no such field.
C19_Original ==
    \A id \in EventIds :
        \A k \in 1..Len(pushes[id]) :
            IF HandleOn(EventOf(id)) # ""
            THEN /\ "authorHandle" \in DOMAIN pushes[id][k]
                 /\ pushes[id][k].authorHandle = HandleOn(EventOf(id))
            ELSE "authorHandle" \notin DOMAIN pushes[id][k]

\* C19 (amended): an envelope has the fields event and matchedRules and no
\* other, whether or not a handle is available on the event.
C19_EnvelopeFields ==
    \A id \in EventIds :
        \A k \in 1..Len(pushes[id]) :
            DOMAIN pushes[id][k] = {"event", "matchedRules"}

\* C19 witness: an envelope has been pushed for an event that has a handle.
C19_Witness ==
    \E id \in EventIds :
        /\ pushes[id] # <<>>
        /\ HandleOn(EventOf(id)) = "alice.bsky.social"
        /\ DOMAIN pushes[id][1] = {"event", "matchedRules"}

\* --------------------------------------------- claims on the subscription
DeclaresWildcard(cfg) == \E k \in 1..Len(cfg) : "*" \in Range(cfg[k].Collections)

\* C21: when a rule declares the collection entry "*", the subscription the
\* consumer hands to the event source is not a list of names that holds "*"
\* as one of them.
C21_WildcardSubscribesAll ==
    (DeclaresWildcard(config) /\ "consumer" \in started) => "*" \notin collections

InList(name, names) == \E i \in 1..Len(names) : names[i] = name

C28_CriteriaKept ==
    \A k \in 1..Len(compiledRules) :
        /\ compiledRules[k].Collections = config[k].Collections
        /\ Len(compiledRules[k].TextPatterns) = Len(config[k].TextRegexes)
        /\ Len(compiledRules[k].UrlPatterns) = Len(config[k].UrlRegexes)
        /\ compiledRules[k].Authors = Range(config[k].Authors)
        /\ compiledRules[k].TargetUsers = Range(config[k].TargetUsers)
        /\ compiledRules[k].EmbedTypes = config[k].EmbedTypes
        /\ compiledRules[k].Langs = config[k].Langs
        /\ compiledRules[k].IsReply = config[k].IsReply

\* ------------------------------------------ claims on the classification
\* The author named by the raw commit of e, "" when e has none.
CommitAuthor(e) == IF e.RawCommit # Nil THEN e.RawCommit.Did ELSE ""

\* C29 (as stated): the author identifier the checks use is the raw commit's
\* author when the event carries one and the event's repository otherwise.
C29_Original ==
    evDone =>
        evClass.authorDID =
            IF CommitAuthor(evEvent) # "" THEN CommitAuthor(evEvent) ELSE evEvent.Repo

\* C29 (amended): the author identifier the checks use is the event's
\* repository, whether or not the event carries a raw commit and whatever
\* author that commit names; the author check is decided by it.
C29_AuthorIsRepo ==
    evDone =>
        /\ evClass.authorDID = evEvent.Repo
        /\ (evRule.Authors # {} /\ evResult) => evEvent.Repo \in evRule.Authors
        /\ (evRule.Authors # {} /\ evEvent.Repo \in evRule.Authors) =>
              evResult = RefExcept(evEvent, evRule, 2)

\* C29 witness: a rule on the author did:plc:abc123 has matched an event of
\* that repository whose raw commit names another author.
C29_Witness ==
    /\ evDone /\ evResult
    /\ evRule.Authors = {DidA}
    /\ evEvent.Repo = DidA
    /\ CommitAuthor(evEvent) = DidB

\* The collection the kind of an event stands for.
KindCollection(e) ==
    CASE e.Type = EventTypePost -> "app.bsky.feed.post"
      [] e.Type = EventTypeLike -> "app.bsky.feed.like"
      [] e.Type = EventTypeRepost -> "app.bsky.feed.repost"
      [] e.Type = "follow" -> "app.bsky.graph.follow"
      [] e.Type = EventTypeDelete ->
            IF e.DeleteEvent # Nil THEN e.DeleteEvent.Collection ELSE ""
      [] e.Type = EventTypeIdentity -> "identity"
      [] e.Type = EventTypeAccount -> "account"
      [] OTHER -> ""

CommitCollection(e) ==
    IF e.RawCommit # Nil /\ e.RawCommit.Commit # Nil
    THEN e.RawCommit.Commit.Collection
    ELSE ""

\* C30: an event of any kind is classified with a non-empty collection: the
\* collection of its raw commit when it has one, else the collection of its
\* kind (for a delete the payload's, for identity and account the sentinels).
C30_CanonicalCollection ==
    evDone =>
        /\ evClass.collection # ""
        /\ evClass.collection =
              IF CommitCollection(evEvent) # "" THEN CommitCollection(evEvent)
              ELSE KindCollection(evEvent)

\* ------------------------------------------------ claims on the target
\* An event of a kind that names an actor interacted with: a like, a repost,
\* or a post that is a reply.
HasTargetKind(e) ==
    \/ e.Type = EventTypeLike
    \/ e.Type = EventTypeRepost
    \/ e.Type = EventTypePost /\ e.Post # Nil /\ e.Post.ReplyInfo # Nil

\* C31: the target identifier of an event that is not a like, a repost or a
\* reply post is empty, and a rule with a non-empty target-users set never
\* matches an event whose target identifier is empty, also when the empty
\* string is a member of the set.
C31_TargetOnlyForInteractions ==
    evDone =>
        /\ ~HasTargetKind(evEvent) => evClass.targetUserDID = ""
        /\ (evClass.targetUserDID = "" /\ evRule.TargetUsers # {}) => ~evResult

\* C31 witness: a rule whose target-users set has the empty string among its
\* members, and whose other criteria all hold, has rejected a post that is not
\* a reply.
C31_Witness ==
    /\ evDone /\ ~evResult
    /\ evEvent.Type = EventTypePost /\ evEvent.Post.ReplyInfo = Nil
    /\ evClass.targetUserDID = ""
    /\ "" \in evRule.TargetUsers
    /\ RefExcept(evEvent, evRule, 3)

\* --------------------------------------------- claims on the embed kind
\* The embed kind of a post: that of the one part its embed carries, "none"
\* when the post has no embed.
EmbedKind(p) ==
    IF p.Embed = Nil THEN "none"
    ELSE IF p.Embed.Images > 0 THEN "images"
    ELSE IF p.Embed.Video # Nil THEN "video"
    ELSE IF p.Embed.External # Nil THEN "external"
    ELSE IF p.Embed.Record # Nil THEN "record"
    ELSE "none"

HasExternalLink(e) ==
    e.Post # Nil /\ e.Post.Embed # Nil /\ e.Post.Embed.External # Nil

\* Some pattern of the list is found in the text.
AnyPatternIn(patterns, text) == \E p \in Range(patterns) : MatchString(p, text)

\* C33: a rule with a non-empty URL-pattern list matches only a post that
\* carries an external-link embed in whose URL some pattern of the list is
\* found; for such a post the verdict is that of the other seven criteria, and
\* a post without an external-link embed is never matched, also when a
\* pattern is found in its text.
C33_UrlNeedsExternalLink ==
    (evDone /\ evRule.UrlPatterns # <<>>) =>
        IF /\ HasExternalLink(evEvent)
           /\ AnyPatternIn(evRule.UrlPatterns, evEvent.Post.Embed.External.URL)
        THEN evResult = RefExcept(evEvent, evRule, 5)
        ELSE ~evResult

\* C33 witness: a rule with a URL-pattern list, whose other criteria all hold,
\* has rejected a post without an external-link embed in whose text a
\* pattern of the list is found.
C33_Witness ==
    /\ evDone /\ ~evResult
    /\ evRule.UrlPatterns # <<>>
    /\ evEvent.Post # Nil /\ ~HasExternalLink(evEvent)
    /\ AnyPatternIn(evRule.UrlPatterns, evEvent.Post.Text)
    /\ RefExcept(evEvent, evRule, 5)

\* -------------------------------------------------- claims on the counters
\* The value of the counter of rule name n, zero when there is none yet.
CountOf(m, n) == IF n \in DOMAIN m THEN m[n] ELSE 0

\* C25: the counter of a rule name is the number of calls of Increment made
\* with that name less those that have not yet added; so once no call is
\* under way it is the number of matches recorded under the name, whatever
\* the interleaving of the workers.  Between two snapshots no name is lost and
\* no value read for a name decreases.
C25_Counted ==
    /\ \A n \in StatNames :
          CountOf(counts, n) = calls[n] - Cardinality({w \in Workers : val[w] = n})
    /\ (\A w \in Workers : val[w] = NoVal) =>
          \A n \in StatNames : CountOf(counts, n) = calls[n]

C25_SnapshotStep ==
    \A n \in DOMAIN snap : n \in DOMAIN snap' /\ snap'[n] >= snap[n]

C25_NoLostUpdate == [](C25_Counted) /\ [][C25_SnapshotStep]_vars

\* C25 witness: two workers are recording the first match of the same rule
\* name at the same time: each holds the new counter, neither has added yet,
\* and a snapshot has read the counter at zero.
C25_Witness ==
    /\ \A w \in Workers : val[w] = "first"
    /\ calls["first"] = NumWorkers
    /\ "first" \in DOMAIN counts /\ counts["first"] = 0
    /\ "first" \in DOMAIN snap /\ snap["first"] = 0

C23_Delivered ==
    \A s \in clients :
        \A m \in (regAt[s].handled + 1)..handled : \E i \in 1..Len(got[s]) : got[s][i] = m

====
